---- MODULE Spec2Model ----
(***************************************************************************)
(* SyncWrapper<T, E> of src/managed/sync.rs: a blocking-only object behind *)
(* Arc<Mutex<T>>, created, used and torn down on the worker threads of a   *)
(* blocking-task executor (Runtime::spawn_blocking).                       *)
(*                                                                         *)
(* T is modelled as a counter (an integer).  One wrapper is constructed;   *)
(* up to MaxCalls interact calls and up to MaxHandles handles taken with   *)
(* inner_obj are followed through every interleaving of the asynchronous   *)
(* caller with the worker threads.                                         *)
(***************************************************************************)
EXTENDS Integers, FiniteSets, Sequences, TLC

\* ------------------------------------------------------------------ bounds
MaxCalls == 2
MaxHandles == 1

CallIds == 1..MaxCalls
HandleIds == 1..MaxHandles

\* Values the caller supplies: backend errors E and panic payloads.
Errs == {"e1", "e2"}
PoisonPayload == "PoisonError"

\* The factory closures passed to new(): Ok(0), Ok(1), Err(e), panic!("fboom").
Factories ==
    {[kind |-> "ok", val |-> 0, info |-> "-"], [kind |-> "ok", val |-> 1, info |-> "-"]}
    \cup {[kind |-> "err", val |-> 0, info |-> e] : e \in Errs}
    \cup {[kind |-> "panic", val |-> 0, info |-> "fboom"]}

\* The closures passed to interact():
\*   inc  : |n| { *n += 1; Ok(*n) }
\*   fail : |_| Err(e)
\*   boom : |n| { *n += 1; panic!("boom") }
Closures ==
    {[kind |-> "inc", info |-> "-"], [kind |-> "boom", info |-> "boom"]}
    \cup {[kind |-> "fail", info |-> e] : e \in Errs}

\* Results are records of one shape: tag, an integer and a string.
Res(tag, val, info) == [tag |-> tag, val |-> val, info |-> info]
NoRes == Res("none", 0, "-")

VARIABLES
    ctor,         \* the call of new(): pc, factory, task outcome, what new returned
    factoryRuns,  \* how often the factory closure was invoked
    wrapper,      \* "none" | "alive" | "dropping" (inside Drop::drop ... fields) | "dropped"
    obj,          \* the value of the wrapped T
    objState,     \* "none" | "live" | "destroyed"
    strong,       \* strong count of the Arc<Mutex<T>>
    locked,       \* the Mutex is held
    poisoned,     \* the Mutex's poison flag
    calls,        \* the interact calls: caller side, worker task side
    teardown,     \* the background task of Drop: "none" | "queued" | "locked" | "done" | "panicked"
    handles,      \* handles returned by inner_obj: "none" | "held" | "locked" | "released"
    hread,        \* what a holder of a handle last read under the lock
    panicObj,     \* the value of T left by the first closure that panicked (-1: none yet)
    dtorRuns,     \* how often T's destructor ran
    dtorThreads   \* the threads it ran on

vars == <<ctor, factoryRuns, wrapper, obj, objState, strong, locked, poisoned, calls,
          teardown, handles, hread, panicObj, dtorRuns, dtorThreads>>

objVars == <<obj, objState, strong, dtorRuns, dtorThreads>>
ctorVars == <<ctor, factoryRuns>>

IdleCall ==
    [cpc |-> "idle",      \* caller: idle | waiting | returned | abandoned | panicked
     tpc |-> "none",      \* worker task: none | queued | locked | mid | done | cancelled
     f |-> [kind |-> "-", info |-> "-"],
     pre |-> FALSE,       \* the lock was poisoned when the call was made
     sawPoison |-> FALSE, \* arc.lock() found the lock poisoned
     leftPoison |-> FALSE, \* the poison flag right after the task dropped its guard
     tmp |-> 0,           \* the closure's local copy of *n
     invoked |-> 0,       \* how often the closure was invoked
     out |-> NoRes,       \* the task's outcome: Ok (closure Ok), Err (closure Err), Panic
     ret |-> NoRes,       \* what interact returned: Ok | Backend | Panic | Aborted
     seenPoison |-> FALSE] \* is_mutex_poisoned() at the moment interact returned

Init ==
    /\ ctor = [pc |-> "init", f |-> [kind |-> "-", val |-> 0, info |-> "-"],
               out |-> NoRes, ret |-> NoRes]
    /\ factoryRuns = 0
    /\ wrapper = "none"
    /\ obj = 0
    /\ objState = "none"
    /\ strong = 0
    /\ locked = FALSE
    /\ poisoned = FALSE
    /\ calls = [c \in CallIds |-> IdleCall]
    /\ teardown = "none"
    /\ handles = [h \in HandleIds |-> "none"]
    /\ hread = -1
    /\ panicObj = -1
    /\ dtorRuns = 0
    /\ dtorThreads = {}

\* ------------------------------------------------- Arc and Mutex primitives

\* Arc::clone
ArcClone == strong' = strong + 1

\* Arc::drop on thread thr: the last owner runs T's destructor, on its own thread.
ArcDrop(thr) ==
    /\ strong' = strong - 1
    /\ IF strong = 1
         THEN /\ objState' = "destroyed"
              /\ dtorRuns' = dtorRuns + 1
              /\ dtorThreads' = dtorThreads \cup {thr}
         ELSE UNCHANGED <<objState, dtorRuns, dtorThreads>>

\* Faulty variant of MutexAvailable: a lock that excludes nobody.
MutexAvailableBroken == TRUE

\* Mutex::lock blocks until the lock is free.
MutexAvailable == ~locked

\* Faulty variants of GuardDrop: the lock stays held; a panic leaves no poison.
GuardDropKeepsLock(panicking) ==
    /\ locked' = TRUE
    /\ poisoned' = (poisoned \/ panicking)

GuardDropNoPoison(panicking) ==
    /\ locked' = FALSE
    /\ poisoned' = poisoned

\* Faulty variant of GuardDrop: a guard dropped without a panic clears the poison flag.
GuardDropResets(panicking) ==
    /\ locked' = FALSE
    /\ poisoned' = panicking

\* MutexGuard::drop: unlocks; marks the lock poisoned when the thread is panicking.
GuardDrop(panicking) ==
    /\ locked' = FALSE
    /\ poisoned' = (poisoned \/ panicking)

\* SyncWrapper::is_mutex_poisoned
is_mutex_poisoned == poisoned

\* ------------------------------------------------------------------- new()

\* new(): the factory is handed to spawn_blocking and awaited.
new_call(f) ==
    /\ ctor.pc = "init"
    /\ ctor' = [ctor EXCEPT !.pc = "queued", !.f = f]
    /\ UNCHANGED <<factoryRuns, wrapper, objVars, locked, poisoned, calls, teardown,
                   handles, hread, panicObj>>

\* The outcome of the factory's task: Ok(Ok(obj)), Ok(Err(e)) or Err(Panic(p)).
FactoryOutcome(f) ==
    IF f.kind = "ok" THEN Res("Ok", f.val, "-")
    ELSE IF f.kind = "err" THEN Res("Err", 0, f.info)
    ELSE Res("Panic", 0, f.info)

\* A worker runs the factory.
new_factory_run ==
    /\ ctor.pc = "queued"
    /\ factoryRuns' = factoryRuns + 1
    /\ ctor' = [ctor EXCEPT !.pc = "ran", !.out = FactoryOutcome(ctor.f)]
    /\ UNCHANGED <<wrapper, objVars, locked, poisoned, calls, teardown, handles, hread,
                   panicObj>>

\* format!("{:?}", e) of a payload e: Box<dyn Any + Send> prints no content.
DebugFmt(p) == "Any { .. }"

\* Faulty variants of NewResult: a panic reported as Err; an Err wrapped as an object.
NewResultPanicAsErr(out) ==
    IF out.tag = "Panic" THEN Res("Err", 0, out.info)
    ELSE IF out.tag = "Err" THEN Res("Err", 0, out.info)
    ELSE Res("Wrapper", out.val, "-")

NewResultErrAsWrapper(out) ==
    IF out.tag = "Panic" THEN Res("PanicPropagated", 0, DebugFmt(out.info))
    ELSE Res("Wrapper", out.val, "-")

\* Faulty variant of NewResult: the wrapper is built around a default value of T.
NewResultDefaultObject(out) ==
    IF out.tag = "Panic" THEN Res("PanicPropagated", 0, DebugFmt(out.info))
    ELSE IF out.tag = "Err" THEN Res("Err", 0, out.info)
    ELSE Res("Wrapper", 0, "-")

\* What new() does with the task's outcome: panic!, Err(e), or Ok(Self).
NewResult(out) ==
    IF out.tag = "Panic" THEN Res("PanicPropagated", 0, DebugFmt(out.info))
    ELSE IF out.tag = "Err" THEN Res("Err", 0, out.info)
    ELSE Res("Wrapper", out.val, "-")

\* The await completes: on Ok(obj) the object is put behind Arc::new(Mutex::new(obj)).
new_return ==
    /\ ctor.pc = "ran"
    /\ ctor' = [ctor EXCEPT !.pc = "returned", !.ret = NewResult(ctor.out)]
    /\ IF NewResult(ctor.out).tag = "Wrapper"
         THEN /\ wrapper' = "alive"
              /\ obj' = NewResult(ctor.out).val
              /\ objState' = "live"
              /\ strong' = 1
              /\ locked' = FALSE
              /\ poisoned' = FALSE
         ELSE UNCHANGED <<wrapper, obj, objState, strong, locked, poisoned>>
    /\ UNCHANGED <<factoryRuns, dtorRuns, dtorThreads, calls, teardown, handles, hread,
                   panicObj>>

\* ---------------------------------------------------------------- interact()

\* What the closure leaves in *n, given the value tmp it read.
ClosureWrite(f, tmp, cur) ==
    IF f.kind \in {"inc", "boom"} THEN tmp + 1 ELSE cur

\* How the closure ends: Ok(*n), Err(e) or a panic with its payload.
ClosureOutcome(f, tmp) ==
    IF f.kind = "inc" THEN Res("Ok", tmp + 1, "-")
    ELSE IF f.kind = "fail" THEN Res("Err", 0, f.info)
    ELSE Res("Panic", 0, f.info)

\* Faulty variant of InteractResult: the backend error is replaced.
InteractResultLosesError(out) ==
    IF out.tag = "Panic" THEN Res("Panic", 0, out.info)
    ELSE IF out.tag = "Err" THEN Res("Backend", 0, "e1")
    ELSE Res("Ok", out.val, "-")

\* The two map_err of interact: Err(Panic(p)) -> Panic(p), Ok(Err(e)) -> Backend(e).
\* SpawnBlockingError has the one variant Panic: nothing is mapped to Aborted.
InteractResult(out) ==
    IF out.tag = "Panic" THEN Res("Panic", 0, out.info)
    ELSE IF out.tag = "Err" THEN Res("Backend", 0, out.info)
    ELSE Res("Ok", out.val, "-")

\* The next call / handle to be made: they are made in the order of their ids.
NextCall(c) == calls[c].cpc = "idle" /\ \A d \in CallIds : d < c => calls[d].cpc # "idle"
NextHandle(h) == handles[h] = "none" /\ \A g \in HandleIds : g < h => handles[g] # "none"

\* Faulty variant of interact: the async fn takes the lock itself, before the task is
\* spawned, and moves the guard into the task.
interact_locks_in_caller(c, f) ==
    /\ wrapper = "alive"
    /\ NextCall(c)
    /\ MutexAvailable
    /\ ~poisoned
    /\ ArcClone
    /\ locked' = TRUE
    /\ calls' = [calls EXCEPT ![c] = [IdleCall EXCEPT !.cpc = "waiting", !.tpc = "locked",
                                                    !.f = f, !.pre = poisoned]]
    /\ UNCHANGED <<ctorVars, wrapper, obj, objState, dtorRuns, dtorThreads, poisoned,
                   teardown, handles, hread, panicObj>>

\* Faulty variant of interact: the task is given the wrapper's Arc without a clone.
interact_no_clone(c, f) ==
    /\ wrapper = "alive"
    /\ NextCall(c)
    /\ calls' = [calls EXCEPT ![c] = [IdleCall EXCEPT !.cpc = "waiting", !.tpc = "queued",
                                                    !.f = f, !.pre = poisoned]]
    /\ UNCHANGED <<ctorVars, wrapper, objVars, locked, poisoned, teardown, handles, hread,
                   panicObj>>

\* interact(f), first poll: clone the Arc, hand the task to spawn_blocking, await.
interact(c, f) ==
    /\ wrapper = "alive"
    /\ NextCall(c)
    /\ ArcClone
    /\ calls' = [calls EXCEPT ![c] = [IdleCall EXCEPT !.cpc = "waiting", !.tpc = "queued",
                                                    !.f = f, !.pre = poisoned]]
    /\ UNCHANGED <<ctorVars, wrapper, obj, objState, dtorRuns, dtorThreads, locked, poisoned,
                   teardown, handles, hread, panicObj>>

\* Faulty variant of interact_task_lock: the task of an abandoned call gives up unrun.
interact_task_lock_cancellable(c) ==
    /\ calls[c].tpc = "queued"
    /\ MutexAvailable
    /\ IF calls[c].cpc = "abandoned"
         THEN /\ ArcDrop("worker")
              /\ calls' = [calls EXCEPT ![c].tpc = "done"]
              /\ UNCHANGED <<locked, poisoned>>
         ELSE IF poisoned
         THEN /\ GuardDrop(TRUE)
              /\ ArcDrop("worker")
              /\ calls' = [calls EXCEPT ![c].tpc = "done", ![c].sawPoison = TRUE,
                                        ![c].leftPoison = poisoned',
                                        ![c].out = Res("Panic", 0, PoisonPayload)]
         ELSE /\ locked' = TRUE
              /\ calls' = [calls EXCEPT ![c].tpc = "locked"]
              /\ UNCHANGED <<poisoned, strong, objState, dtorRuns, dtorThreads>>
    /\ UNCHANGED <<ctorVars, wrapper, obj, teardown, handles, hread, panicObj>>

\* Variant of interact_task_lock that takes the lock whether poisoned or not.
interact_task_lock_tolerant(c) ==
    /\ calls[c].tpc = "queued"
    /\ MutexAvailable
    /\ locked' = TRUE
    /\ calls' = [calls EXCEPT ![c].tpc = "locked"]
    /\ UNCHANGED <<ctorVars, wrapper, objVars, poisoned, teardown, handles, hread, panicObj>>

\* The task: arc.lock().unwrap().  On a poisoned lock unwrap panics: the guard inside the
\* PoisonError and the task's Arc are dropped by the unwinding, the closure f is not called.
interact_task_lock(c) ==
    /\ calls[c].tpc = "queued"
    /\ MutexAvailable
    /\ IF poisoned
         THEN /\ GuardDrop(TRUE)
              /\ ArcDrop("worker")
              /\ calls' = [calls EXCEPT ![c].tpc = "done", ![c].sawPoison = TRUE,
                                        ![c].leftPoison = poisoned',
                                        ![c].out = Res("Panic", 0, PoisonPayload)]
         ELSE /\ locked' = TRUE
              /\ calls' = [calls EXCEPT ![c].tpc = "locked"]
              /\ UNCHANGED <<poisoned, strong, objState, dtorRuns, dtorThreads>>
    /\ UNCHANGED <<ctorVars, wrapper, obj, teardown, handles, hread, panicObj>>

\* f(&mut *conn) starts: the closure reads the object.
interact_closure_begin(c) ==
    /\ calls[c].tpc = "locked"
    /\ calls' = [calls EXCEPT ![c].tpc = "mid", ![c].invoked = @ + 1, ![c].tmp = obj]
    /\ UNCHANGED <<ctorVars, wrapper, objVars, locked, poisoned, teardown, handles, hread,
                   panicObj>>

\* Faulty variant of interact_closure_end: the object was moved out of the lock for the
\* call, so that the unwinding of a panic destroys it.
interact_closure_end_destroys(c) ==
    /\ calls[c].tpc = "mid"
    /\ LET out == ClosureOutcome(calls[c].f, calls[c].tmp)
           new == ClosureWrite(calls[c].f, calls[c].tmp, obj)
       IN /\ obj' = new
          /\ GuardDrop(out.tag = "Panic")
          /\ strong' = strong - 1
          /\ IF out.tag = "Panic" \/ strong = 1
               THEN /\ objState' = "destroyed"
                    /\ dtorRuns' = dtorRuns + 1
                    /\ dtorThreads' = dtorThreads \cup {"worker"}
               ELSE UNCHANGED <<objState, dtorRuns, dtorThreads>>
          /\ panicObj' = IF out.tag = "Panic" /\ panicObj = -1 THEN new ELSE panicObj
          /\ calls' = [calls EXCEPT ![c].tpc = "done", ![c].out = out,
                                    ![c].leftPoison = poisoned']
    /\ UNCHANGED <<ctorVars, wrapper, teardown, handles, hread>>

\* f ends (returns or panics): it writes the object; the guard and then the task's Arc are
\* dropped, by the return or by the unwinding.
interact_closure_end(c) ==
    /\ calls[c].tpc = "mid"
    /\ LET out == ClosureOutcome(calls[c].f, calls[c].tmp)
           new == ClosureWrite(calls[c].f, calls[c].tmp, obj)
       IN /\ obj' = new
          /\ GuardDrop(out.tag = "Panic")
          /\ ArcDrop("worker")
          /\ panicObj' = IF out.tag = "Panic" /\ panicObj = -1 THEN new ELSE panicObj
          /\ calls' = [calls EXCEPT ![c].tpc = "done", ![c].out = out,
                                    ![c].leftPoison = poisoned']
    /\ UNCHANGED <<ctorVars, wrapper, teardown, handles, hread>>

\* The await completes and interact returns to its caller.
interact_return(c) ==
    /\ calls[c].cpc = "waiting"
    /\ calls[c].tpc = "done"
    /\ calls' = [calls EXCEPT ![c].cpc = "returned", ![c].ret = InteractResult(calls[c].out),
                              ![c].seenPoison = is_mutex_poisoned]
    /\ UNCHANGED <<ctorVars, wrapper, objVars, locked, poisoned, teardown, handles, hread,
                   panicObj>>

\* The caller drops the future of interact before it completed.  The executor does not
\* kill the task of a dropped future: it stays queued or running.
interact_abandon(c) ==
    /\ calls[c].cpc = "waiting"
    /\ calls' = [calls EXCEPT ![c].cpc = "abandoned"]
    /\ UNCHANGED <<ctorVars, wrapper, objVars, locked, poisoned, teardown, handles, hread,
                   panicObj>>

\* ---------------------------------------------------------------- inner_obj()

\* inner_obj(): another owner of the Arc.
inner_obj(h) ==
    /\ wrapper = "alive"
    /\ NextHandle(h)
    /\ ArcClone
    /\ handles' = [handles EXCEPT ![h] = "held"]
    /\ UNCHANGED <<ctorVars, wrapper, obj, objState, dtorRuns, dtorThreads, locked, poisoned,
                   calls, teardown, hread, panicObj>>

\* The holder of a handle locks it, tolerating poison, and reads the object.
handle_lock(h) ==
    /\ handles[h] = "held"
    /\ MutexAvailable
    /\ locked' = TRUE
    /\ hread' = obj
    /\ handles' = [handles EXCEPT ![h] = "locked"]
    /\ UNCHANGED <<ctorVars, wrapper, objVars, poisoned, calls, teardown, panicObj>>

handle_unlock(h) ==
    /\ handles[h] = "locked"
    /\ GuardDrop(FALSE)
    /\ handles' = [handles EXCEPT ![h] = "held"]
    /\ UNCHANGED <<ctorVars, wrapper, objVars, calls, teardown, hread, panicObj>>

\* The holder drops its handle, on its own thread.
handle_drop(h) ==
    /\ handles[h] = "held"
    /\ ArcDrop("holder")
    /\ handles' = [handles EXCEPT ![h] = "released"]
    /\ UNCHANGED <<ctorVars, wrapper, obj, locked, poisoned, calls, teardown, hread,
                   panicObj>>

\* ------------------------------------------------------------------- Drop

\* Faulty variant of drop: the dropping thread takes the lock itself before it schedules.
drop_waits_for_lock ==
    /\ wrapper = "alive"
    /\ \A c \in CallIds : calls[c].cpc # "waiting"
    /\ MutexAvailable
    /\ wrapper' = "dropping"
    /\ ArcClone
    /\ teardown' = "queued"
    /\ UNCHANGED <<ctorVars, obj, objState, dtorRuns, dtorThreads, locked, poisoned, calls,
                   handles, hread, panicObj>>

\* Drop::drop: clone the Arc and hand the teardown closure to spawn_blocking_background.
\* The wrapper is borrowed by every interact future that is still awaited.
drop ==
    /\ wrapper = "alive"
    /\ \A c \in CallIds : calls[c].cpc # "waiting"
    /\ wrapper' = "dropping"
    /\ ArcClone
    /\ teardown' = "queued"
    /\ UNCHANGED <<ctorVars, obj, objState, dtorRuns, dtorThreads, locked, poisoned, calls,
                   handles, hread, panicObj>>

\* After Drop::drop returned, the dropping thread drops the wrapper's fields: self.obj.
drop_fields ==
    /\ wrapper = "dropping"
    /\ wrapper' = "dropped"
    /\ ArcDrop("caller")
    /\ UNCHANGED <<ctorVars, obj, locked, poisoned, calls, teardown, handles, hread,
                   panicObj>>

\* Faulty variant of teardown_lock: arc.lock().unwrap(), which panics on poison.
teardown_lock_unwrap ==
    /\ teardown = "queued"
    /\ MutexAvailable
    /\ IF poisoned
         THEN /\ teardown' = "panicked"
              /\ GuardDrop(TRUE)
              /\ ArcDrop("worker")
         ELSE /\ teardown' = "locked"
              /\ locked' = TRUE
              /\ UNCHANGED <<poisoned, strong, objState, dtorRuns, dtorThreads>>
    /\ UNCHANGED <<ctorVars, wrapper, obj, calls, handles, hread, panicObj>>

\* The teardown closure: match arc.lock() { Ok(guard) => .., Err(e) => e.into_inner() }.
teardown_lock ==
    /\ teardown = "queued"
    /\ MutexAvailable
    /\ teardown' = "locked"
    /\ locked' = TRUE
    /\ UNCHANGED <<ctorVars, wrapper, objVars, poisoned, calls, handles, hread, panicObj>>

\* drop(guard): the lock is released; the closure ends and drops its Arc.
teardown_finish ==
    /\ teardown = "locked"
    /\ GuardDrop(FALSE)
    /\ ArcDrop("worker")
    /\ teardown' = "done"
    /\ UNCHANGED <<ctorVars, wrapper, obj, calls, handles, hread, panicObj>>

\* ------------------------------------------------------------ specification

Next ==
    \/ \E f \in Factories : new_call(f)
    \/ new_factory_run
    \/ new_return
    \/ \E c \in CallIds, f \in Closures : interact(c, f)
    \/ \E c \in CallIds : interact_task_lock(c)
    \/ \E c \in CallIds : interact_closure_begin(c)
    \/ \E c \in CallIds : interact_closure_end(c)
    \/ \E c \in CallIds : interact_return(c)
    \/ \E c \in CallIds : interact_abandon(c)
    \/ \E h \in HandleIds : inner_obj(h)
    \/ \E h \in HandleIds : handle_lock(h)
    \/ \E h \in HandleIds : handle_unlock(h)
    \/ \E h \in HandleIds : handle_drop(h)
    \/ drop
    \/ drop_fields
    \/ teardown_lock
    \/ teardown_finish

Spec == Init /\ [][Next]_vars

\* ------------------------------------------------------- a fair executor

\* The step of whoever holds the lock: at most one of these is enabled at a time.
HolderStep ==
    \/ \E c \in CallIds : interact_closure_begin(c) \/ interact_closure_end(c)
    \/ teardown_finish
    \/ \E h \in HandleIds : handle_unlock(h)

\* A worker task blocked in Mutex::lock gets the lock.
AcquireStep ==
    \/ \E c \in CallIds : interact_task_lock(c)
    \/ teardown_lock

\* The await of a completed task is resumed.
ResumeStep == \E c \in CallIds : interact_return(c)

\* The holder of the lock goes on until it releases it, a completed await is resumed, and
\* when the lock is released again and again some blocked worker task gets it (the holder
\* of a handle may take the lock any number of times).
Fairness ==
    /\ WF_vars(HolderStep)
    /\ WF_vars(ResumeStep)
    /\ SF_vars(AcquireStep)

\* Whether a task ends does not depend on the values passed around: for the runs under
\* fairness the factory returns Ok(0) and a closure either returns (inc) or panics (boom).
FairFactories == {f \in Factories : f.kind = "ok" /\ f.val = 0}
FairClosures == {f \in Closures : f.kind \in {"inc", "boom"}}

NextFair ==
    \/ \E f \in FairFactories : new_call(f)
    \/ new_factory_run
    \/ new_return
    \/ \E c \in CallIds, f \in FairClosures : interact(c, f)
    \/ \E c \in CallIds : interact_task_lock(c)
    \/ \E c \in CallIds : interact_closure_begin(c)
    \/ \E c \in CallIds : interact_closure_end(c)
    \/ \E c \in CallIds : interact_return(c)
    \/ \E c \in CallIds : interact_abandon(c)
    \/ \E h \in HandleIds : inner_obj(h)
    \/ \E h \in HandleIds : handle_lock(h)
    \/ \E h \in HandleIds : handle_unlock(h)
    \/ \E h \in HandleIds : handle_drop(h)
    \/ drop
    \/ drop_fields
    \/ teardown_lock
    \/ teardown_finish

FairSpec == Init /\ [][NextFair]_vars /\ Fairness

\* ------------------------------------------- an executor that cancels tasks

\* The scheduling layer cancels a task that has not started: the closure is dropped unrun,
\* and with it its Arc clone.
interact_task_cancel(c) ==
    /\ calls[c].tpc = "queued"
    /\ ArcDrop("executor")
    /\ calls' = [calls EXCEPT ![c].tpc = "cancelled"]
    /\ UNCHANGED <<ctorVars, wrapper, obj, locked, poisoned, teardown, handles, hread,
                   panicObj>>

\* The await of a cancelled task completes.  spawn_blocking returns
\* Result<_, SpawnBlockingError> and SpawnBlockingError has the one variant Panic: there
\* being no closure result, the executor reports Err(Panic(p)), which interact maps as
\* any other, or it panics in the caller.
interact_cancelled_return(c) ==
    /\ calls[c].cpc = "waiting"
    /\ calls[c].tpc = "cancelled"
    /\ \/ calls' = [calls EXCEPT ![c].cpc = "returned",
                                 ![c].ret = InteractResult(Res("Panic", 0, "JoinError")),
                                 ![c].seenPoison = is_mutex_poisoned]
       \/ calls' = [calls EXCEPT ![c].cpc = "panicked",
                                 ![c].ret = Res("PanicPropagated", 0, "JoinError")]
    /\ UNCHANGED <<ctorVars, wrapper, objVars, locked, poisoned, teardown, handles, hread,
                   panicObj>>

NextCancel ==
    \/ Next
    \/ \E c \in CallIds : interact_task_cancel(c)
    \/ \E c \in CallIds : interact_cancelled_return(c)

SpecCancel == Init /\ [][NextCancel]_vars

\* ------------------------------------------------------------------ helpers

Issued == {c \in CallIds : calls[c].cpc # "idle"}
InCriticalSection == {c \in CallIds : calls[c].tpc \in {"locked", "mid"}}
RunningClosures == {c \in CallIds : calls[c].tpc = "mid"}
LockedHandles == {h \in HandleIds : handles[h] = "locked"}
LockHolders ==
    Cardinality(InCriticalSection) + Cardinality(LockedHandles)
        + (IF teardown = "locked" THEN 1 ELSE 0)

\* Nobody owns the Arc any more: wrapper dropped, every task ended, every handle released.
AllReleased ==
    /\ wrapper = "dropped"
    /\ teardown \in {"done", "panicked"}
    /\ \A c \in CallIds : calls[c].tpc \in {"none", "done"}
    /\ \A h \in HandleIds : handles[h] \in {"none", "released"}

\* ------------------------------------------------------------------- claims

\* C1: at most one interaction closure executes against the object at any moment; a
\* closure runs only while its worker task holds the lock, and no two tasks (nor the
\* teardown task, nor the holder of a handle) hold the lock at the same time.
C1_MutualExclusion ==
    /\ Cardinality(RunningClosures) <= 1
    /\ \A c \in InCriticalSection : locked
    /\ LockHolders <= 1

\* Two calls are in flight at once: one closure is executing, the other task is queued.
C1_Witness ==
    \E c, d \in CallIds : calls[c].tpc = "mid" /\ calls[d].tpc = "queued"

\* C2: a worker task releases the lock on every exit path, so the lock is never held
\* without a running holder: once the tasks that took it have ended the lock is free and
\* the task of a following interact call can acquire it.
C2_LockReleased ==
    /\ locked => LockHolders >= 1
    /\ \A c \in CallIds :
          calls[c].tpc = "queued" /\ LockHolders = 0 => ENABLED interact_task_lock(c)

\* A closure panicked, and a call made after it found the lock free, took it on the
\* poisoned path and released it again.
C2_Witness ==
    \E c, d \in CallIds :
        /\ calls[c].out = Res("Panic", 0, "boom")
        /\ calls[d].pre /\ calls[d].sawPoison /\ calls[d].cpc = "returned"
        /\ ~locked

\* C3: a call whose closure panicked returns Err(Panic(payload)) with the closure's
\* payload, and is_mutex_poisoned() is true when the call returns (and from the moment
\* the task ended).
C3_PanicPoisons ==
    \A c \in CallIds :
        calls[c].f.kind = "boom" /\ calls[c].invoked >= 1 /\ calls[c].tpc = "done" =>
            /\ is_mutex_poisoned
            /\ calls[c].cpc = "returned" =>
                  /\ calls[c].ret = Res("Panic", 0, calls[c].f.info)
                  /\ calls[c].seenPoison

C3_Witness ==
    \E c \in CallIds :
        calls[c].f.kind = "boom" /\ calls[c].invoked = 1 /\ calls[c].cpc = "returned"

C5_ResultPassThrough ==
    \A c \in CallIds :
        /\ calls[c].cpc = "returned"
        /\ ~calls[c].sawPoison
        /\ calls[c].f.kind \in {"inc", "fail"}
        => LET r == ClosureOutcome(calls[c].f, calls[c].tmp)
           IN /\ calls[c].invoked = 1
              /\ ~calls[c].leftPoison
              /\ r.tag = "Ok" => calls[c].ret = Res("Ok", r.val, "-")
              /\ r.tag = "Err" => calls[c].ret = Res("Backend", 0, calls[c].f.info)

\* One call returned Ok and another Err(Backend("e2")).
C5_Witness ==
    \E c, d \in CallIds :
        /\ calls[c].ret.tag = "Ok"
        /\ calls[d].ret = Res("Backend", 0, "e2")

\* C6: on a wrapper made from Ok(0), when all N calls made are increments and all have
\* returned, the values returned are exactly 1..N (no duplicate, no gap) and the object,
\* also as read through the handle of inner_obj, holds N.
C6_CounterScenario ==
    LET N == Cardinality(Issued)
    IN  /\ ctor.f.kind = "ok" /\ ctor.f.val = 0
        /\ \A c \in Issued : calls[c].f.kind = "inc" /\ calls[c].cpc = "returned"
        => /\ \A c \in Issued : calls[c].ret.tag = "Ok"
           /\ {calls[c].ret.val : c \in Issued} = 1..N
           /\ objState = "live" => obj = N
           /\ \A h \in LockedHandles : hread = N

\* Every call of the bound was made, concurrently, and the handle is being read.
C6_Witness ==
    /\ ctor.f.kind = "ok" /\ ctor.f.val = 0
    /\ Issued = CallIds
    /\ \A c \in CallIds : calls[c].f.kind = "inc" /\ calls[c].cpc = "returned"
    /\ LockedHandles # {}

\* C7: the object's destructor runs at most once, only after the wrapper was dropped, and
\* exactly once when the wrapper is dropped and every task and holder has finished; the
\* teardown task never fails, also on a poisoned lock.
C7_DestructorOnce ==
    /\ dtorRuns <= 1
    /\ dtorRuns = 1 => wrapper = "dropped"
    /\ AllReleased => dtorRuns = 1 /\ objState = "destroyed"
    /\ teardown # "panicked"

\* The wrapper was dropped with its lock poisoned and the teardown has completed.
C7_Witness ==
    /\ poisoned
    /\ AllReleased
    /\ dtorRuns = 1

\* C8 (as claimed): the destructor runs on a worker thread only.
C8_DestructorOnWorker ==
    dtorThreads \subseteq {"worker"}

\* C9: when the factory returns Err(e), new returns Err(e) with the same e; no wrapper and
\* no object exist, no teardown task is scheduled and no destructor runs.
C9_FactoryError ==
    ctor.f.kind = "err" =>
        /\ ctor.pc = "returned" => ctor.ret = Res("Err", 0, ctor.f.info)
        /\ wrapper = "none"
        /\ objState = "none"
        /\ strong = 0
        /\ teardown = "none"
        /\ dtorRuns = 0

C9_Witness ==
    ctor.pc = "returned" /\ ctor.f.kind = "err" /\ ctor.ret.info = "e2"

\* C10: when the factory panics, new ends by panicking in its caller; it returns neither
\* Err nor a wrapper.
C10_FactoryPanicPropagates ==
    ctor.f.kind = "panic" =>
        /\ ctor.pc = "returned" => ctor.ret.tag = "PanicPropagated"
        /\ ctor.ret.tag \notin {"Err", "Wrapper"}
        /\ wrapper = "none"

C10_Witness ==
    ctor.pc = "returned" /\ ctor.f.kind = "panic" /\ factoryRuns = 1

\* C11: at the moment new returns a wrapper (no call, handle or drop made yet) the factory
\* has run exactly once, one live object holds the value the factory returned, owned by
\* the wrapper alone, and the lock is neither held nor poisoned.
C11_FreshWrapper ==
    /\ factoryRuns <= 1
    /\ ctor.ret.tag = "Wrapper" => factoryRuns = 1 /\ ctor.f.kind = "ok"
    /\ wrapper = "alive" /\ Issued = {} /\ (\A h \in HandleIds : handles[h] = "none")
       => /\ ctor.ret.tag = "Wrapper"
          /\ objState = "live"
          /\ obj = ctor.f.val
          /\ strong = 1
          /\ dtorRuns = 0
          /\ ~locked
          /\ ~is_mutex_poisoned

\* new has just returned a wrapper around the value 1.
C11_Witness ==
    /\ wrapper = "alive" /\ Issued = {} /\ (\A h \in HandleIds : handles[h] = "none")
    /\ ctor.f.val = 1
    /\ obj = 1

\* C12: a panic in a closure destroys nothing: while the wrapper or a handle still owns
\* the object it stays alive, it holds what the panicking closure wrote before it
\* panicked, and the holder of a handle reads that value under a poison-tolerant lock.
C12_PanicKeepsObject ==
    /\ \A c \in CallIds :
          calls[c].out = Res("Panic", 0, "boom") /\ objState = "live"
              => obj = calls[c].tmp + 1 /\ panicObj = calls[c].tmp + 1
    /\ poisoned /\ wrapper \in {"alive", "dropping"} => objState = "live" /\ dtorRuns = 0
    /\ \A h \in HandleIds :
          poisoned /\ handles[h] \in {"held", "locked"} => objState = "live" /\ dtorRuns = 0
    /\ \A h \in LockedHandles : poisoned => hread = obj

\* After a panic, with the wrapper already dropped and torn down, the handle is read.
C12_Witness ==
    /\ poisoned
    /\ wrapper = "dropped" /\ teardown = "done"
    /\ \E h \in LockedHandles : hread = panicObj /\ hread >= 1

C15_CancelledIsAborted ==
    \A c \in CallIds :
        calls[c].tpc = "cancelled" /\ calls[c].cpc \in {"returned", "panicked"} =>
            calls[c].ret = Res("Aborted", 0, "-")

\* C16: the object outlives every holder: once its destructor has run, the wrapper is
\* dropped, no interaction task is queued or executing (also not one of an abandoned
\* call), the teardown task has ended and no handle from inner_obj is held.
C16_ObjectOutlivesHolders ==
    objState = "destroyed" \/ dtorRuns >= 1 =>
        /\ wrapper = "dropped"
        /\ \A c \in CallIds : calls[c].tpc \in {"none", "done"}
        /\ teardown = "done"
        /\ \A h \in HandleIds : handles[h] \in {"none", "released"}

\* The call was abandoned and the wrapper dropped and torn down while the closure still
\* runs on the live object, which this task alone now owns.
C16_Witness ==
    \E c \in CallIds :
        /\ calls[c].cpc = "abandoned"
        /\ calls[c].tpc = "mid"
        /\ wrapper = "dropped"
        /\ teardown = "done"
        /\ strong = 1
        /\ objState = "live"

\* A held lock that no handle holder took is held by exactly one worker task in execution.
C17_HeldByWorker ==
    locked /\ LockedHandles = {}
        => Cardinality(InCriticalSection) + (IF teardown = "locked" THEN 1 ELSE 0) = 1

\* A step that takes or releases the lock is a step of a worker task or of a handle
\* holder: it changes nothing on the caller's side.
C17_CallerNeverLocks ==
    locked' # locked =>
        /\ \A c \in CallIds : calls'[c].cpc = calls[c].cpc
        /\ wrapper' = wrapper
        /\ ctor' = ctor
        /\ \/ \E c \in CallIds : calls'[c].tpc # calls[c].tpc
           \/ teardown' # teardown
           \/ handles' # handles

\* C17: unless the holder of a handle from inner_obj took it, a held lock is held by
\* exactly one worker task in execution (an interaction task or the teardown task); and the
\* lock is taken and released only by steps of a worker task or of a handle holder, never
\* by a step of the asynchronous caller (new, interact's call, return or abandonment, drop).
C17_LockWorkerSide == [](C17_HeldByWorker) /\ [][C17_CallerNeverLocks]_vars

\* The caller is suspended in interact's await while its task runs the closure under the
\* lock.
C17_Witness ==
    \E c \in CallIds : calls[c].cpc = "waiting" /\ calls[c].tpc = "mid" /\ locked

\* C18: a call whose task finds the lock poisoned (every call made after the poisoning
\* does) never invokes its closure and returns Err(Panic(_)); the object stays as the
\* panicking closure left it, the lock stays poisoned, and it is released.
C18_PoisonedCallsFail ==
    /\ \A c \in CallIds :
          /\ calls[c].pre /\ calls[c].tpc = "done" => calls[c].sawPoison
          /\ calls[c].sawPoison =>
                /\ calls[c].invoked = 0
                /\ calls[c].out.tag = "Panic"
                /\ calls[c].leftPoison
                /\ is_mutex_poisoned
                /\ obj = panicObj
                /\ calls[c].cpc = "returned" =>
                      calls[c].ret.tag = "Panic" /\ calls[c].seenPoison
    /\ (\E c \in CallIds : calls[c].sawPoison) /\ LockHolders = 0 => ~locked

\* Both calls of the bound: the first panicked in its closure, the second, made later,
\* returned Err(Panic) from the poisoned lock, which is free again.
C18_Witness ==
    \E c, d \in CallIds :
        /\ calls[c].f.kind = "boom" /\ calls[c].invoked = 1
        /\ calls[d].pre /\ calls[d].cpc = "returned" /\ calls[d].ret.tag = "Panic"
        /\ calls[d].f.kind = "inc"
        /\ obj = panicObj
        /\ poisoned /\ ~locked

\* The poison flag is set exactly when the closure of some call has panicked.
C19_PoisonIffPanicked ==
    is_mutex_poisoned <=>
        \E c \in CallIds :
            calls[c].f.kind = "boom" /\ calls[c].invoked >= 1 /\ calls[c].tpc = "done"

\* No step resets the poison flag.
C19_NeverReset == poisoned => poisoned'

\* C19: is_mutex_poisoned() is true exactly when the closure of an earlier interaction
\* panicked under the lock: false from creation and across calls that return Ok or
\* Err(Backend), and once true never reset by interact, inner_obj, a handle's use or drop.
C19_PoisonHistory == [](C19_PoisonIffPanicked) /\ [][C19_NeverReset]_vars

\* One call returned without a panic and saw the flag clear; a later one panicked; the
\* wrapper has been dropped and torn down, and the flag is still set.
C19_Witness ==
    \E c, d \in CallIds :
        /\ calls[c].ret.tag \in {"Ok", "Backend"} /\ ~calls[c].seenPoison
        /\ calls[d].f.kind = "boom" /\ calls[d].cpc = "returned" /\ calls[d].seenPoison
        /\ wrapper = "dropped" /\ teardown = "done"
        /\ poisoned

====
